---- MODULE Spec2Model ----
(***************************************************************************)
(* Size-targeted JPEG encoder of Sweegi/image-tools                        *)
(* (save_final_puzzle_image, backend/calendar/utils.py, duplicated in      *)
(* couple-avatar/utils.py and cover/utils.py) together with the per-image  *)
(* try/except loop of its batch caller (calendar/puzzle.py).               *)
(*                                                                         *)
(* The JPEG codec is library code.  It is modelled as a deterministic      *)
(* function from (bitmap, quality) to a byte size: every bitmap carries a  *)
(* "profile" that fixes the size of its encode at each quality.  A profile *)
(* is a two-level step function of the quality, monotone or not, over a    *)
(* sample of byte sizes around the 200KB/300KB window.                     *)
(***************************************************************************)
EXTENDS Integers, Sequences, FiniteSets, TLC

\* ------------------------------------------------------------ constants

FINAL_PUZZLE_MIN_SIZE == 200 * 1024
FINAL_PUZZLE_MAX_SIZE == 300 * 1024
DEFAULT_TARGET_SIZE == 250 * 1024

Phase1StartQuality == 95
Phase2StartQuality == 85
FloorQuality == 30
QualityStep == 5

\* ------------------------------------------------------------ bounds

\* number of images the batch loop iterates over
MaxItems == 2
\* largest bitmap side of the inputs (pixels)
MaxDim == 40

\* ------------------------------------------------------------ codec

Qualities == {q \in FloorQuality..Phase1StartQuality : q % QualityStep = 0}

\* byte sizes the codec may produce: below, at the edges of, and above the
\* window (min-1 and max+1 are equidistant from the default target)
FileSizes ==
    { 100 * 1024,
      FINAL_PUZZLE_MIN_SIZE - 1, FINAL_PUZZLE_MIN_SIZE,
      FINAL_PUZZLE_MAX_SIZE, FINAL_PUZZLE_MAX_SIZE + 1,
      900 * 1024 }

\* a profile: size hi at every quality >= knee, size lo below it
ConstProfiles == {[hi |-> s, lo |-> s, knee |-> FloorQuality] : s \in FileSizes}

StepProfiles ==
    {[hi |-> a, lo |-> b, knee |-> k] :
        a \in FileSizes, b \in FileSizes, k \in Qualities \ {FloorQuality}}
    \ {p \in [hi : FileSizes, lo : FileSizes, knee : Qualities] : p.hi = p.lo}

Profiles == ConstProfiles \cup StepProfiles

\* size in bytes of the JPEG written for a bitmap with profile p at quality q
SizeAt(p, q) == IF q >= p.knee THEN p.hi ELSE p.lo

\* codec profiles of the input sweeps: in the window, below it, above it
FewProfiles ==
    {p \in ConstProfiles :
        p.hi \in {FINAL_PUZZLE_MIN_SIZE - 1, FINAL_PUZZLE_MAX_SIZE,
                  FINAL_PUZZLE_MAX_SIZE + 1}}
FewResizedProfiles ==
    {p \in ConstProfiles :
        p.hi \in {FINAL_PUZZLE_MIN_SIZE - 1, FINAL_PUZZLE_MIN_SIZE, 900 * 1024}}

\* the profiles a resized copy may show, by the codec family of the run
ResizedProfiles(codec) == IF codec = "any" THEN Profiles ELSE FewResizedProfiles

Abs(x) == IF x < 0 THEN -x ELSE x

\* ------------------------------------------------------------ bitmaps

\* PIL colour modes of the inputs; RGBA and LA carry an alpha channel
Modes == {"RGB", "RGBA", "LA", "L"}
AlphaModes == {"RGBA", "LA"}

NoProfile == [hi |-> 0, lo |-> 0, knee |-> 0]

\* a bitmap: its mode and size, one region of it (its colour and alpha), and
\* how its content compresses
NoImage ==
    [mode |-> "none", width |-> 0, height |-> 0, colour |-> "none", alpha |-> 0,
     profile |-> NoProfile]

\* Image.new('RGB', size, white); bg.paste(image, mask=alpha): a pixel of
\* alpha 0 shows the white canvas, a pixel of alpha 255 shows the image
FlattenOnWhite(img) ==
    [img EXCEPT !.mode = "RGB",
                !.colour = IF img.alpha = 0 THEN "white" ELSE img.colour,
                !.alpha = 255]

\* Image.convert('RGB'): keeps each pixel's colour and drops any alpha band
ConvertRGB(img) == [img EXCEPT !.mode = "RGB", !.alpha = 255]

\* the mode normalisation of save_final_puzzle_image
ToRGB(img) ==
    IF img.mode = "RGBA" THEN FlattenOnWhite(img)
    ELSE IF img.mode # "RGB" THEN ConvertRGB(img)
    ELSE img

\* ------------------------------------------------------------ paths and files

Suffixes == {".png", ".PNG", ".jpg", ".jpeg", ".webp"}

\* str.lower() on the suffixes above
Lower(s) == IF s = ".PNG" THEN ".png" ELSE s

NoPath == [stem |-> 0, suffix |-> ""]

\* mutant of NormalizeSuffix: the sweeps write next to the caller's path
NormalizeSuffix_Temp(path) == [path EXCEPT !.suffix = ".webp"]

\* the extension rewrite of save_final_puzzle_image
NormalizeSuffix(path) ==
    IF Lower(path.suffix) = ".png" THEN [path EXCEPT !.suffix = ".jpg"] ELSE path

Paths == {[stem |-> i, suffix |-> s] : i \in 1..MaxItems, s \in Suffixes}

NoFile ==
    [exists |-> FALSE, complete |-> FALSE, width |-> 0, height |-> 0,
     quality |-> 0, size |-> 0, colour |-> "none"]

\* what a failed write can leave behind: the file opened and cut short
TruncatedFile == [NoFile EXCEPT !.exists = TRUE]

\* image.save(output_file, 'JPEG', quality=q, optimize=True): the file written
JpegSave(img, q) ==
    [exists |-> TRUE, complete |-> TRUE, width |-> img.width, height |-> img.height,
     quality |-> q, size |-> SizeAt(img.profile, q), colour |-> img.colour]

\* one completed image.save: the branch it belongs to (1: first sweep, 2: resized
\* sweep and its fallback, 3: the save of the best candidate), where it wrote, what
Attempt(phase, path, f) == [phase |-> phase, path |-> path, file |-> f]

\* ------------------------------------------------------------ the search

\* mutant of SizeWindow: the window is taken from the caller
SizeWindow_FromCaller(wanted) == wanted

\* the window the tests of save_final_puzzle_image use
SizeWindow(wanted) ==
    [min_bytes |-> FINAL_PUZZLE_MIN_SIZE, max_bytes |-> FINAL_PUZZLE_MAX_SIZE]

\* mutant of ClampTarget: the upper clamp is missing
ClampTarget_NoUpper(t, lo, hi) == IF t < lo THEN lo ELSE t

ClampTarget(t, lo, hi) == IF t < lo THEN lo ELSE IF t > hi THEN hi ELSE t

\* mutant of InWindow: the edges of the window are left out
InWindow_Exclusive(size, lo, hi) == lo < size /\ size < hi

\* mutant of InWindow: the upper edge is not tested
InWindow_NoUpper(size, lo, hi) == lo <= size

InWindow(size, lo, hi) == lo <= size /\ size <= hi

\* mutant of IsCloser: an attempt at the same distance replaces the record
IsCloser_OrEqual(size, best, target) ==
    best = 0 \/ Abs(size - target) <= Abs(best - target)

\* mutant of IsCloser: every attempt replaces the best candidate
IsCloser_Always(size, best, target) == best = 0 \/ size > 0

\* whether an attempt replaces the recorded best candidate
IsCloser(size, best, target) ==
    best = 0 \/ Abs(size - target) < Abs(best - target)

\* mutant of ScaledDim: the scaled side is rounded up
ScaledDim_Ceil(d, target, best) ==
    CHOOSE n \in 0..(2 * d) :
        /\ n * n * best >= d * d * target
        /\ (n = 0 \/ (n - 1) * (n - 1) * best < d * d * target)

\* mutant of ScaledDim: the ratio is inverted, (best / target) ** 0.5
ScaledDim_Inverted(d, target, best) ==
    CHOOSE n \in 0..(2 * d) :
        /\ n * n * target <= d * d * best
        /\ (n + 1) * (n + 1) * target > d * d * best

\* int(d * (target / best) ** 0.5): the largest n with n*n*best <= d*d*target
ScaledDim(d, target, best) ==
    CHOOSE n \in 0..(2 * d) :
        /\ n * n * best <= d * d * target
        /\ (n + 1) * (n + 1) * best > d * d * target

\* ------------------------------------------------------------ state

VARIABLES
    work,             \* the batch: per image, the arguments of its save call
    idx,              \* enumerate(...) position of the batch loop, from 1
    success_count,    \* the caller's success_count
    error_count,      \* logger.error lines of the caller's except branch
    disk,             \* result directory: path -> file
    pc,               \* where control is
    exc,              \* the exception in flight: "none", "OSError", "ValueError"
    image,            \* local image (after the mode normalisation)
    output_file,      \* local output_file (after the extension rewrite)
    target_size,      \* local target_size (after the clamp)
    min_size,
    max_size,
    current_quality,
    best_quality,
    best_size,
    file_size,        \* last output_file.stat().st_size
    resized_image,
    attempts,         \* history: the completed image.save calls of the running call
    driver,           \* which puzzle.py runs: its main and its processing function
    subdirs,          \* main's list of subdirectories, each with its input files
    subdir_idx,       \* position of main's loop over subdirs, from 1
    main_success_count, \* main's success_count
    results,          \* per subdirectory: its result directory and the files in it
    opened,           \* history: the input images opened so far, as <<subdir, file>>
    handed,           \* history: per subdirectory, the calls of its processing function
    runs              \* per copy of save_final_puzzle_image, its complete run

callerVars == <<work, idx, success_count, error_count>>
localVars ==
    <<image, output_file, target_size, min_size, max_size, current_quality,
      best_quality, best_size, file_size, resized_image, attempts>>
driverVars ==
    <<driver, subdirs, subdir_idx, main_success_count, results, opened, handed>>
vars == <<work, idx, success_count, error_count, disk, pc, exc, image, output_file,
          target_size, min_size, max_size, current_quality, best_quality,
          best_size, file_size, resized_image, attempts, driver, subdirs,
          subdir_idx, main_success_count, results, opened, handed, runs>>

\* the state of a run in which no main is running
NoDriver ==
    /\ driver = "none"
    /\ subdirs = <<>>
    /\ subdir_idx = 0
    /\ main_success_count = 0
    /\ results = <<>>
    /\ opened = {}
    /\ handed = <<>>

\* the locals of a call that is not running
NoLocals ==
    /\ image' = NoImage
    /\ output_file' = NoPath
    /\ target_size' = 0
    /\ min_size' = 0
    /\ max_size' = 0
    /\ current_quality' = 0
    /\ best_quality' = 0
    /\ best_size' = 0
    /\ file_size' = 0
    /\ resized_image' = NoImage
    /\ attempts' = <<>>

\* ------------------------------------------------------------ the caller

\* for idx, ... in enumerate(zip(image_files, calendar_images), 1): try:
\*     save_final_puzzle_image(single_img, output_file)
\* entered together with the function's prologue: the clamp of the target, the
\* mode normalisation, the extension rewrite, the initial search state
CallSave ==
    /\ pc = "loop"
    /\ idx <= Len(work)
    /\ LET arg == work[idx]
           win == SizeWindow(arg.wanted)
       IN  /\ min_size' = win.min_bytes
           /\ max_size' = win.max_bytes
           /\ target_size' = ClampTarget(arg.target_size, win.min_bytes, win.max_bytes)
           /\ image' = ToRGB(arg.image)
           /\ output_file' = NormalizeSuffix(arg.output_file)
    /\ current_quality' = Phase1StartQuality
    /\ best_quality' = Phase1StartQuality
    /\ best_size' = 0
    /\ file_size' = 0
    /\ resized_image' = NoImage
    /\ attempts' = <<>>
    /\ pc' = "phase1"
    /\ UNCHANGED <<callerVars, disk, exc>>
    /\ UNCHANGED <<driverVars, runs>>

\* the call returned: logger.info(...); success_count += 1; next image
ReturnToCaller ==
    /\ pc = "returned"
    /\ success_count' = success_count + 1
    /\ idx' = idx + 1
    /\ pc' = "loop"
    /\ NoLocals
    /\ UNCHANGED <<work, error_count, disk, exc>>
    /\ UNCHANGED <<driverVars, runs>>

\* mutant of CatchException: the failed image is tried again
CatchException_Retry ==
    /\ pc = "raised"
    /\ error_count' = error_count + 1
    /\ exc' = "none"
    /\ pc' = "loop"
    /\ UNCHANGED <<work, idx, success_count, disk, localVars>>
    /\ UNCHANGED <<driverVars, runs>>

\* except Exception as e: logger.error(...); next image
CatchException ==
    /\ pc = "raised"
    /\ error_count' = error_count + 1
    /\ exc' = "none"
    /\ idx' = idx + 1
    /\ pc' = "loop"
    /\ UNCHANGED <<work, success_count, disk, localVars>>
    /\ UNCHANGED <<driverVars, runs>>

\* the loop is over: return success_count > 0
FinishBatch ==
    /\ pc = "loop"
    /\ idx > Len(work)
    /\ pc' = IF success_count > 0 THEN "batch_ok" ELSE "batch_failed"
    /\ UNCHANGED <<callerVars, disk, exc, localVars>>
    /\ UNCHANGED <<driverVars, runs>>

\* ------------------------------------------------------------ the encoder

\* an exception leaves save_final_puzzle_image: its locals are gone
Raise(kind) ==
    /\ exc' = kind
    /\ pc' = "raised"
    /\ NoLocals

\* mutant of Phase1Encode: the sweep has no floor above quality 0
Phase1Encode_NoFloor ==
    /\ pc = "phase1"
    /\ LET f == JpegSave(image, current_quality) IN
        /\ disk' = [disk EXCEPT ![output_file] = f]
        /\ file_size' = f.size
        /\ attempts' = Append(attempts, Attempt(1, output_file, f))
        /\ IF InWindow(f.size, min_size, max_size)
           THEN /\ pc' = "returned"
                /\ UNCHANGED <<best_quality, best_size, current_quality>>
           ELSE /\ IF IsCloser(f.size, best_size, target_size)
                   THEN best_quality' = current_quality /\ best_size' = f.size
                   ELSE UNCHANGED <<best_quality, best_size>>
                /\ IF f.size > max_size
                   THEN /\ current_quality' = current_quality - QualityStep
                        /\ pc' = IF current_quality - QualityStep >= 0
                                 THEN "phase1" ELSE "branch"
                   ELSE /\ current_quality' = current_quality
                        /\ pc' = "branch"
    /\ UNCHANGED <<callerVars, exc, image, output_file, target_size, min_size,
                   max_size, resized_image>>
    /\ UNCHANGED <<driverVars, runs>>

\* mutant of Phase1Encode: an undersized encode does not break the sweep
Phase1Encode_NoBreak ==
    /\ pc = "phase1"
    /\ LET f == JpegSave(image, current_quality) IN
        /\ disk' = [disk EXCEPT ![output_file] = f]
        /\ file_size' = f.size
        /\ attempts' = Append(attempts, Attempt(1, output_file, f))
        /\ IF InWindow(f.size, min_size, max_size)
           THEN /\ pc' = "returned"
                /\ UNCHANGED <<best_quality, best_size, current_quality>>
           ELSE /\ IF IsCloser(f.size, best_size, target_size)
                   THEN best_quality' = current_quality /\ best_size' = f.size
                   ELSE UNCHANGED <<best_quality, best_size>>
                /\ current_quality' = current_quality - QualityStep
                /\ pc' = IF current_quality - QualityStep >= FloorQuality
                         THEN "phase1" ELSE "branch"
    /\ UNCHANGED <<callerVars, exc, image, output_file, target_size, min_size,
                   max_size, resized_image>>
    /\ UNCHANGED <<driverVars, runs>>

\* one pass of: while current_quality >= 30 (phase 1, full resolution)
Phase1Encode ==
    /\ pc = "phase1"
    /\ LET f == JpegSave(image, current_quality) IN
        /\ disk' = [disk EXCEPT ![output_file] = f]
        /\ file_size' = f.size
        /\ attempts' = Append(attempts, Attempt(1, output_file, f))
        /\ IF InWindow(f.size, min_size, max_size)
           THEN /\ pc' = "returned"
                /\ UNCHANGED <<best_quality, best_size, current_quality>>
           ELSE /\ IF IsCloser(f.size, best_size, target_size)
                   THEN best_quality' = current_quality /\ best_size' = f.size
                   ELSE UNCHANGED <<best_quality, best_size>>
                /\ IF f.size > max_size
                   THEN /\ current_quality' = current_quality - QualityStep
                        /\ pc' = IF current_quality - QualityStep >= FloorQuality
                                 THEN "phase1" ELSE "branch"
                   ELSE /\ current_quality' = current_quality
                        /\ pc' = "branch"
    /\ UNCHANGED <<callerVars, exc, image, output_file, target_size, min_size,
                   max_size, resized_image>>
    /\ UNCHANGED <<driverVars, runs>>

\* mutant of Resize: an undersized best candidate is resized as well
Resize_WhenOutsideWindow ==
    /\ pc = "branch"
    /\ best_size > max_size \/ best_size < min_size
    /\ LET w == ScaledDim(image.width, target_size, best_size)
           h == ScaledDim(image.height, target_size, best_size)
       IN  IF w < 1 \/ h < 1
           THEN Raise("ValueError")
           ELSE /\ \E rp \in ResizedProfiles(work[idx].codec) :
                      resized_image' =
                          [image EXCEPT !.width = w, !.height = h, !.profile = rp]
                /\ current_quality' = Phase2StartQuality
                /\ pc' = "phase2"
                /\ UNCHANGED <<exc, image, output_file, target_size, min_size,
                               max_size, best_quality, best_size, file_size, attempts>>
    /\ UNCHANGED <<callerVars, disk>>
    /\ UNCHANGED <<driverVars, runs>>

\* if best_size > max_size: scale, resize, current_quality = 85.
\* Image.resize raises ValueError for a side of 0 pixels; how the resized
\* copy compresses is only known once it exists
Resize ==
    /\ pc = "branch"
    /\ best_size > max_size
    /\ LET w == ScaledDim(image.width, target_size, best_size)
           h == ScaledDim(image.height, target_size, best_size)
       IN  IF w < 1 \/ h < 1
           THEN Raise("ValueError")
           ELSE /\ \E rp \in ResizedProfiles(work[idx].codec) :
                      resized_image' =
                          [image EXCEPT !.width = w, !.height = h, !.profile = rp]
                /\ current_quality' = Phase2StartQuality
                /\ pc' = "phase2"
                /\ UNCHANGED <<exc, image, output_file, target_size, min_size,
                               max_size, best_quality, best_size, file_size, attempts>>
    /\ UNCHANGED <<callerVars, disk>>
    /\ UNCHANGED <<driverVars, runs>>

\* mutant of SaveBest: the last save uses the starting quality
SaveBest_AtStartQuality ==
    /\ pc = "branch"
    /\ ~(best_size > max_size)
    /\ disk' = [disk EXCEPT ![output_file] = JpegSave(image, Phase1StartQuality)]
    /\ attempts' =
          Append(attempts, Attempt(3, output_file, JpegSave(image, Phase1StartQuality)))
    /\ pc' = "returned"
    /\ UNCHANGED <<callerVars, exc, image, output_file, target_size, min_size,
                   max_size, current_quality, best_quality, best_size, file_size,
                   resized_image>>
    /\ UNCHANGED <<driverVars, runs>>

\* elif best_size < min_size / else: image.save(..., quality=best_quality)
SaveBest ==
    /\ pc = "branch"
    /\ ~(best_size > max_size)
    /\ disk' = [disk EXCEPT ![output_file] = JpegSave(image, best_quality)]
    /\ attempts' = Append(attempts, Attempt(3, output_file, JpegSave(image, best_quality)))
    /\ pc' = "returned"
    /\ UNCHANGED <<callerVars, exc, image, output_file, target_size, min_size,
                   max_size, current_quality, best_quality, best_size, file_size,
                   resized_image>>
    /\ UNCHANGED <<driverVars, runs>>

\* mutant of Phase2Encode: an undersized encode does not end the call
Phase2Encode_NoReturnOnSmall ==
    /\ pc = "phase2"
    /\ LET f == JpegSave(resized_image, current_quality) IN
        /\ disk' = [disk EXCEPT ![output_file] = f]
        /\ file_size' = f.size
        /\ attempts' = Append(attempts, Attempt(2, output_file, f))
        /\ IF InWindow(f.size, min_size, max_size)
           THEN /\ pc' = "returned"
                /\ current_quality' = current_quality
           ELSE /\ current_quality' = current_quality - QualityStep
                /\ pc' = IF current_quality - QualityStep >= FloorQuality
                         THEN "phase2" ELSE "fallback"
    /\ UNCHANGED <<callerVars, exc, image, output_file, target_size, min_size,
                   max_size, best_quality, best_size, resized_image>>
    /\ UNCHANGED <<driverVars, runs>>

\* one pass of: while current_quality >= 30 (phase 2, resized bitmap)
Phase2Encode ==
    /\ pc = "phase2"
    /\ LET f == JpegSave(resized_image, current_quality) IN
        /\ disk' = [disk EXCEPT ![output_file] = f]
        /\ file_size' = f.size
        /\ attempts' = Append(attempts, Attempt(2, output_file, f))
        /\ IF InWindow(f.size, min_size, max_size)
           THEN /\ pc' = "returned"
                /\ current_quality' = current_quality
           ELSE IF f.size > max_size
           THEN /\ current_quality' = current_quality - QualityStep
                /\ pc' = IF current_quality - QualityStep >= FloorQuality
                         THEN "phase2" ELSE "fallback"
           ELSE /\ pc' = "returned"
                /\ current_quality' = current_quality
    /\ UNCHANGED <<callerVars, exc, image, output_file, target_size, min_size,
                   max_size, best_quality, best_size, resized_image>>
    /\ UNCHANGED <<driverVars, runs>>

\* mutant of Fallback: the last encode uses the quality the sweep ended on
Fallback_AtCurrentQuality ==
    /\ pc = "fallback"
    /\ LET f == JpegSave(resized_image, current_quality) IN
        /\ disk' = [disk EXCEPT ![output_file] = f]
        /\ file_size' = f.size
        /\ attempts' = Append(attempts, Attempt(2, output_file, f))
    /\ pc' = "returned"
    /\ UNCHANGED <<callerVars, exc, image, output_file, target_size, min_size,
                   max_size, current_quality, best_quality, best_size, resized_image>>
    /\ UNCHANGED <<driverVars, runs>>

\* resized_image.save(output_file, 'JPEG', quality=30); stat
Fallback ==
    /\ pc = "fallback"
    /\ LET f == JpegSave(resized_image, FloorQuality) IN
        /\ disk' = [disk EXCEPT ![output_file] = f]
        /\ file_size' = f.size
        /\ attempts' = Append(attempts, Attempt(2, output_file, f))
    /\ pc' = "returned"
    /\ UNCHANGED <<callerVars, exc, image, output_file, target_size, min_size,
                   max_size, current_quality, best_quality, best_size, resized_image>>
    /\ UNCHANGED <<driverVars, runs>>

\* whether the next statement of the call is an image.save
AtSave ==
    \/ pc \in {"phase1", "phase2", "fallback"}
    \/ pc = "branch" /\ ~(best_size > max_size)

\* the file the next image.save of the call writes
PendingSave ==
    CASE pc = "phase1" -> JpegSave(image, current_quality)
      [] pc = "phase2" -> JpegSave(resized_image, current_quality)
      [] pc = "fallback" -> JpegSave(resized_image, FloorQuality)
      [] OTHER -> JpegSave(image, best_quality)

\* image.save raises OSError (permission denied, disk full) and leaves the
\* file as it was or opened and cut short; or the save completes and
\* output_file.stat() raises (no stat follows the save of the last branch)
StorageError ==
    /\ AtSave
    /\ \E left \in {disk[output_file], TruncatedFile}
                   \cup (IF pc = "branch" THEN {} ELSE {PendingSave}) :
          disk' = [disk EXCEPT ![output_file] = left]
    /\ Raise("OSError")
    /\ UNCHANGED callerVars
    /\ UNCHANGED <<driverVars, runs>>

\* ------------------------------------------------------------ inputs

DefaultWindow ==
    [min_bytes |-> FINAL_PUZZLE_MIN_SIZE, max_bytes |-> FINAL_PUZZLE_MAX_SIZE]

\* one save call: its arguments, the codec family of the run, and the window
\* its caller would like to have
Item(img, codec, path, t, wanted) ==
    [image |-> img, codec |-> codec, output_file |-> path,
     target_size |-> t, wanted |-> wanted]

RGBImage(w, h, p) ==
    [mode |-> "RGB", width |-> w, height |-> h, colour |-> "black", alpha |-> 255,
     profile |-> p]

JpgPath == [stem |-> 1, suffix |-> ".jpg"]

\* one image, every codec profile, the caller's default arguments; with a
\* height of 1 pixel the resize has no room
CodecItems ==
    {Item(RGBImage(MaxDim, h, p), "any", JpgPath, DEFAULT_TARGET_SIZE, DefaultWindow) :
        p \in Profiles, h \in {1, 3}}

InputImages ==
    {[mode |-> m, width |-> w, height |-> h, colour |-> "black", alpha |-> a,
      profile |-> p] :
        m \in Modes, w \in {1, MaxDim}, h \in {1, MaxDim}, a \in {0, 255},
        p \in FewProfiles}
    \ {i \in [mode : Modes, width : {1, MaxDim}, height : {1, MaxDim},
              colour : {"black"}, alpha : {0}, profile : FewProfiles] :
          i.mode \notin AlphaModes}

\* target_size arguments: below, at the edges of, inside and above the window
TargetSizes ==
    {100 * 1024, FINAL_PUZZLE_MIN_SIZE, DEFAULT_TARGET_SIZE, FINAL_PUZZLE_MAX_SIZE,
     400 * 1024}

\* windows a caller may want: the module's, and a smaller one
WantedWindows == {DefaultWindow, [min_bytes |-> 100 * 1024, max_bytes |-> 150 * 1024]}

\* one image, every kind of argument, few codec profiles
InputItems ==
    {Item(img, "few", [stem |-> 1, suffix |-> s], t, w) :
        img \in InputImages, s \in Suffixes, t \in TargetSizes, w \in WantedWindows}

\* the images of a batch: the caller of calendar/puzzle.py passes RGB
\* composites, <idx>.jpg and the default target
BatchItems ==
    {Item(RGBImage(MaxDim, 3, p), "few", JpgPath, DEFAULT_TARGET_SIZE,
          DefaultWindow) : p \in FewProfiles}

Batches ==
    UNION {{[k \in 1..n |-> [f[k] EXCEPT !.output_file.stem = k]] :
               f \in [1..n -> BatchItems]} : n \in 1..MaxItems}

InitWith(batches) ==
    /\ work \in batches
    /\ idx = 1
    /\ success_count = 0
    /\ error_count = 0
    /\ disk = [p \in Paths |-> NoFile]
    /\ pc = "loop"
    /\ exc = "none"
    /\ image = NoImage
    /\ output_file = NoPath
    /\ target_size = 0
    /\ min_size = 0
    /\ max_size = 0
    /\ current_quality = 0
    /\ best_quality = 0
    /\ best_size = 0
    /\ file_size = 0
    /\ resized_image = NoImage
    /\ attempts = <<>>
    /\ NoDriver
    /\ runs = <<>>

Init == InitWith({<<it>> : it \in CodecItems})
InitInputs == InitWith({<<it>> : it \in InputItems})
InitBatch == InitWith(Batches)

Next ==
    \/ CallSave
    \/ Phase1Encode
    \/ Resize
    \/ SaveBest
    \/ Phase2Encode
    \/ Fallback
    \/ ReturnToCaller
    \/ CatchException
    \/ FinishBatch

NextFaulty ==
    \/ Next
    \/ StorageError

\* the encoder over a disk that does not fail: one image, every codec profile
Spec == Init /\ [][Next]_vars

\* the encoder over a disk that does not fail: one image, every kind of argument
SpecInputs == InitInputs /\ [][Next]_vars

\* the batch loop over a disk that may fail
SpecBatch == InitBatch /\ [][NextFaulty]_vars

\* ------------------------------------------------------------ the mobile images

\* image_extensions = ['.png', '.jpg', '.jpeg', '.webp'] and, for each, the
\* glob of the extension and the glob of its upper case: the place of a
\* suffix in that order
GlobRank(s) ==
    CASE s = ".png"  -> 1
      [] s = ".PNG"  -> 2
      [] s = ".jpg"  -> 3
      [] s = ".jpeg" -> 5
      [] s = ".webp" -> 7

\* the images of one listing of a source directory, in the order the globs
\* give them (the order within one glob is the directory's); each is composed
\* on a copy of the back image and saved under its own file name with the
\* default target
MobileBatches ==
    UNION {{f \in [1..n -> {Item(RGBImage(MaxDim, 3, p), "few", path,
                                 DEFAULT_TARGET_SIZE, DefaultWindow) :
                               p \in FewProfiles, path \in Paths}] :
               \A i \in 1..n : \A j \in (i + 1)..n :
                   /\ f[i].output_file # f[j].output_file
                   /\ GlobRank(f[i].output_file.suffix)
                          <= GlobRank(f[j].output_file.suffix)} :
           n \in 1..MaxItems}

InitMobile == InitWith(MobileBatches)

\* the loop of process_mobile_imgs_directory over a disk that may fail
SpecMobile == InitMobile /\ [][NextFaulty]_vars

\* ------------------------------------------------------------ save_optimized_jpeg

MAX_JPEG_SIZE == 500 * 1024
OptimizedRestartQuality == 75

\* the locals of save_optimized_jpeg; the other variables are not its own
optVars == <<image, output_file, max_size, current_quality, file_size, attempts>>
notOptVars ==
    <<callerVars, target_size, min_size, best_quality, best_size, resized_image>>

\* save_optimized_jpeg(image, output_file, max_size, quality): the mode
\* normalisation, current_quality = quality, and the first test of
\* while current_quality > 30
OptCall ==
    /\ pc = "opt_start"
    /\ image' = ToRGB(work[idx].image)
    /\ output_file' = work[idx].output_file
    /\ max_size' = work[idx].max_size
    /\ current_quality' = work[idx].quality
    /\ pc' = IF work[idx].quality > FloorQuality THEN "opt_sweep" ELSE "opt_stat"
    /\ UNCHANGED <<notOptVars, disk, exc, file_size, attempts>>
    /\ UNCHANGED <<driverVars, runs>>

\* one pass of: while current_quality > 30 (full resolution)
OptEncode ==
    /\ pc = "opt_sweep"
    /\ LET f == JpegSave(image, current_quality) IN
        /\ disk' = [disk EXCEPT ![output_file] = f]
        /\ file_size' = f.size
        /\ attempts' = Append(attempts, Attempt(1, output_file, f))
        /\ IF f.size <= max_size
           THEN /\ pc' = "opt_returned"
                /\ current_quality' = current_quality
           ELSE /\ current_quality' = current_quality - QualityStep
                /\ pc' = IF current_quality - QualityStep > FloorQuality
                         THEN "opt_sweep" ELSE "opt_stat"
    /\ UNCHANGED <<notOptVars, exc, image, output_file, max_size>>
    /\ UNCHANGED <<driverVars, runs>>

\* file_size = output_file.stat().st_size; if file_size > max_size: ...
\* stat raises FileNotFoundError when the loop wrote nothing and no file was
\* there; a file that was there is measured as if the call had written it
OptStat ==
    /\ pc = "opt_stat"
    /\ IF ~disk[output_file].exists
       THEN Raise("FileNotFoundError")
       ELSE /\ file_size' = disk[output_file].size
            /\ pc' = IF disk[output_file].size > max_size
                     THEN "opt_resize" ELSE "opt_returned"
            /\ UNCHANGED <<notOptVars, exc, image, output_file, max_size,
                           current_quality, attempts>>
    /\ UNCHANGED <<callerVars, disk>>
    /\ UNCHANGED <<driverVars, runs>>

\* scale = (max_size / file_size) ** 0.5; image = image.resize(new_size);
\* current_quality = 75
OptResize ==
    /\ pc = "opt_resize"
    /\ LET w == ScaledDim(image.width, max_size, file_size)
           h == ScaledDim(image.height, max_size, file_size)
       IN  IF w < 1 \/ h < 1
           THEN Raise("ValueError")
           ELSE /\ \E rp \in ResizedProfiles(work[idx].codec) :
                      image' = [image EXCEPT !.width = w, !.height = h, !.profile = rp]
                /\ current_quality' = OptimizedRestartQuality
                /\ pc' = "opt_resweep"
                /\ UNCHANGED <<notOptVars, exc, output_file, max_size, file_size,
                               attempts>>
    /\ UNCHANGED <<callerVars, disk>>
    /\ UNCHANGED <<driverVars, runs>>

\* one pass of: while current_quality > 30 (resized bitmap)
OptReEncode ==
    /\ pc = "opt_resweep"
    /\ LET f == JpegSave(image, current_quality) IN
        /\ disk' = [disk EXCEPT ![output_file] = f]
        /\ file_size' = f.size
        /\ attempts' = Append(attempts, Attempt(2, output_file, f))
        /\ IF f.size <= max_size
           THEN /\ pc' = "opt_returned"
                /\ current_quality' = current_quality
           ELSE /\ current_quality' = current_quality - QualityStep
                /\ pc' = IF current_quality - QualityStep > FloorQuality
                         THEN "opt_resweep" ELSE "opt_fallback"
    /\ UNCHANGED <<notOptVars, exc, image, output_file, max_size>>
    /\ UNCHANGED <<driverVars, runs>>

\* image.save(output_file, 'JPEG', quality=30); stat; the function ends
OptFallback ==
    /\ pc = "opt_fallback"
    /\ LET f == JpegSave(image, FloorQuality) IN
        /\ disk' = [disk EXCEPT ![output_file] = f]
        /\ file_size' = f.size
        /\ attempts' = Append(attempts, Attempt(2, output_file, f))
    /\ pc' = "opt_returned"
    /\ UNCHANGED <<notOptVars, exc, image, output_file, max_size, current_quality>>
    /\ UNCHANGED <<driverVars, runs>>

\* one call: its arguments and the codec family of the run
OptItem(img, codec, path, m, q) ==
    [image |-> img, codec |-> codec, output_file |-> path, max_size |-> m,
     quality |-> q]

\* max_size arguments: the default, and the upper edge of the sampled sizes
OptMaxSizes == {MAX_JPEG_SIZE, FINAL_PUZZLE_MAX_SIZE}

\* quality arguments: the default, one between, and two the loop never enters
OptStartQualities == {Phase1StartQuality, 50, FloorQuality, 10}

OptItems ==
    {OptItem(RGBImage(MaxDim, h, p), "few", JpgPath, m, q) :
        p \in Profiles, h \in {1, 3}, m \in OptMaxSizes, q \in OptStartQualities}

\* a file another call left at the output path
StaleFile(size) == [NoFile EXCEPT !.exists = TRUE, !.complete = TRUE, !.size = size]

InitOptimized ==
    /\ work \in {<<it>> : it \in OptItems}
    /\ idx = 1
    /\ success_count = 0
    /\ error_count = 0
    /\ disk \in {[p \in Paths |-> IF p = JpgPath THEN f ELSE NoFile] :
                    f \in {NoFile, StaleFile(100 * 1024), StaleFile(900 * 1024)}}
    /\ pc = "opt_start"
    /\ exc = "none"
    /\ image = NoImage
    /\ output_file = NoPath
    /\ target_size = 0
    /\ min_size = 0
    /\ max_size = 0
    /\ current_quality = 0
    /\ best_quality = 0
    /\ best_size = 0
    /\ file_size = 0
    /\ resized_image = NoImage
    /\ attempts = <<>>
    /\ NoDriver
    /\ runs = <<>>

NextOptimized ==
    \/ OptCall
    \/ OptEncode
    \/ OptStat
    \/ OptResize
    \/ OptReEncode
    \/ OptFallback

\* save_optimized_jpeg over a disk that does not fail
SpecOptimized == InitOptimized /\ [][NextOptimized]_vars

\* ------------------------------------------------------------ the batch drivers

\* number of subdirectories main iterates over
MaxDirs == 2

\* the mains and the processing function each hands its subdirectories to:
\* calendar/puzzle.py process_directory, couple-avatar/puzzle.py
\* process_directory and process_single_avatars, cover/puzzle.py
\* process_mobile_imgs_directory and process_directory
Drivers == {"calendar", "couple-avatar", "single-avatar", "mobile-imgs", "cover"}

\* an input of a subdirectory (an image, or an -a/-b pair): it can be opened,
\* composed and saved; or Image.open raises on it; or it opens and its
\* composition or its save_final_puzzle_image raises
ItemKinds == {"ok", "unopenable", "unsavable"}

\* what is at the path of a result directory: nothing, a directory, a file
Entries == {"none", "dir", "file"}

\* the file name overview.jpg among the outputs <idx>.jpg
Overview == 0

\* mutant of SkipTest: the processing function of cover does not test
SkipTest_NotForCover(d, entry) == d # "cover" /\ entry = "dir"

\* if result_dir.exists() and result_dir.is_dir(); cover: if intr_dir.exists()
SkipTest(d, entry) == IF d = "cover" THEN entry # "none" ELSE entry = "dir"

\* the subdirectory main is at, its input files and its result directory
Subdir == subdirs[subdir_idx]
Result == results[subdir_idx]

\* the locals of a processing function that is not running
NoFrame ==
    /\ work' = <<>>
    /\ idx' = 1
    /\ success_count' = 0

\* the processing function returns ok to main: if ...: success_count += 1
ReturnToMain(ok) ==
    /\ main_success_count' = main_success_count + (IF ok THEN 1 ELSE 0)
    /\ subdir_idx' = subdir_idx + 1
    /\ pc' = "main"
    /\ NoFrame

\* an exception leaves the processing function
RaiseToMain(kind) ==
    /\ exc' = kind
    /\ pc' = "main_except"
    /\ NoFrame
    /\ UNCHANGED <<main_success_count, subdir_idx>>

\* for subdir in subdirs: try: if process_directory(subdir, ...)
MainCall ==
    /\ pc = "main"
    /\ subdir_idx <= Len(subdirs)
    /\ handed' = [handed EXCEPT ![subdir_idx] = @ + 1]
    /\ pc' = "check"
    /\ UNCHANGED <<work, idx, success_count, error_count, disk, exc, localVars,
                   driver, subdirs, subdir_idx, main_success_count, results, opened>>
    /\ UNCHANGED runs

\* the result directory is there: logger.info(...); return True
SkipExisting ==
    /\ pc = "check"
    /\ SkipTest(driver, Result.entry)
    /\ ReturnToMain(TRUE)
    /\ UNCHANGED <<error_count, disk, exc, localVars, driver, subdirs, results,
                   opened, handed>>
    /\ UNCHANGED runs

\* no calendar image, no pair, no avatar file, or (cover) files missing:
\* return False before anything is created
NoInputs ==
    /\ pc = "check"
    /\ ~SkipTest(driver, Result.entry)
    /\ driver # "mobile-imgs"
    /\ Len(Subdir.inputs) = 0
    /\ ReturnToMain(FALSE)
    /\ UNCHANGED <<error_count, disk, exc, localVars, driver, subdirs, results,
                   opened, handed>>
    /\ UNCHANGED runs

\* result_dir.mkdir(parents=True, exist_ok=True), which raises FileExistsError
\* over a file; process_mobile_imgs_directory lists its images only after it
MakeResultDir ==
    /\ pc = "check"
    /\ ~SkipTest(driver, Result.entry)
    /\ driver = "mobile-imgs" \/ Len(Subdir.inputs) > 0
    /\ IF Result.entry = "file"
       THEN /\ RaiseToMain("FileExistsError")
            /\ UNCHANGED results
       ELSE /\ results' = [results EXCEPT ![subdir_idx].entry = "dir"]
            /\ IF Len(Subdir.inputs) = 0
               THEN ReturnToMain(FALSE) /\ exc' = exc
               ELSE /\ work' = Subdir.inputs
                    /\ idx' = 1
                    /\ success_count' = 0
                    /\ pc' = CASE driver = "calendar" -> "open"
                               [] driver = "cover" -> "cover_body"
                               [] OTHER -> "items"
                    /\ UNCHANGED <<exc, main_success_count, subdir_idx>>
    /\ UNCHANGED <<error_count, disk, localVars, driver, subdirs, opened, handed>>
    /\ UNCHANGED runs

\* calendar: for img_file in image_files: try: Image.open(img_file)
\* except: logger.error(...); return False
OpenAll ==
    /\ pc = "open"
    /\ LET bad == {i \in 1..Len(work) : work[i] = "unopenable"}
           stop == IF bad = {} THEN Len(work)
                   ELSE CHOOSE i \in bad : \A j \in bad : i <= j
       IN  /\ opened' = opened \cup {<<subdir_idx, i>> : i \in 1..stop}
           /\ IF bad = {}
              THEN /\ pc' = "overview"
                   /\ UNCHANGED <<work, idx, success_count, error_count,
                                  main_success_count, subdir_idx>>
              ELSE /\ error_count' = error_count + 1
                   /\ ReturnToMain(FALSE)
    /\ UNCHANGED <<disk, exc, localVars, driver, subdirs, results, handed>>
    /\ UNCHANGED runs

\* calendar, back.png not square: try: create_overview_puzzle;
\* save_final_puzzle_image(overview.jpg); success_count += 1
\* except: logger.error(...)
MakeOverview ==
    /\ pc = "overview"
    /\ \E ok \in BOOLEAN :
          IF ok
          THEN /\ results' = [results EXCEPT ![subdir_idx].files = @ \cup {Overview}]
               /\ success_count' = success_count + 1
               /\ error_count' = error_count
          ELSE /\ error_count' = error_count + 1
               /\ UNCHANGED <<results, success_count>>
    /\ pc' = "items"
    /\ UNCHANGED <<work, idx, disk, exc, localVars, driver, subdirs, subdir_idx,
                   main_success_count, opened, handed>>
    /\ UNCHANGED runs

\* one pass of the loop over the images (pairs) of the subdirectory: try:
\* (Image.open;) compose; save_final_puzzle_image(result_dir / name);
\* success_count += 1 except Exception: logger.error(...)
\* a save that raises may have written the output path before
ProcessItem ==
    /\ pc = "items"
    /\ idx <= Len(work)
    /\ opened' = IF driver = "calendar" THEN opened
                 ELSE opened \cup {<<subdir_idx, idx>>}
    /\ IF work[idx] = "ok"
       THEN /\ results' = [results EXCEPT ![subdir_idx].files = @ \cup {idx}]
            /\ success_count' = success_count + 1
            /\ error_count' = error_count
       ELSE /\ error_count' = error_count + 1
            /\ success_count' = success_count
            /\ \E left \in BOOLEAN :
                  results' = IF left /\ work[idx] = "unsavable"
                             THEN [results EXCEPT ![subdir_idx].files = @ \cup {idx}]
                             ELSE results
    /\ idx' = idx + 1
    /\ UNCHANGED <<work, disk, pc, exc, localVars, driver, subdirs, subdir_idx,
                   main_success_count, handed>>
    /\ UNCHANGED runs

\* the loop is over: return success_count > 0
ReturnFromDirectory ==
    /\ pc = "items"
    /\ idx > Len(work)
    /\ ReturnToMain(success_count > 0)
    /\ UNCHANGED <<error_count, disk, exc, localVars, driver, subdirs, results,
                   opened, handed>>
    /\ UNCHANGED runs

\* cover process_directory after intr_dir.mkdir: the prepare_* and create_*
\* functions are not part of the sources; they write into intr, touch any of
\* the inputs, and the call returns success, or an exception leaves it
CoverBody ==
    /\ pc = "cover_body"
    /\ \E written \in SUBSET (1..Len(work)), touched \in SUBSET (1..Len(work)) :
          /\ results' = [results EXCEPT ![subdir_idx].files = @ \cup written]
          /\ opened' = opened \cup {<<subdir_idx, i>> : i \in touched}
    /\ \/ \E ok \in BOOLEAN : ReturnToMain(ok) /\ exc' = exc
       \/ RaiseToMain("Exception")
    /\ UNCHANGED <<error_count, disk, localVars, driver, subdirs, handed>>
    /\ UNCHANGED runs

\* main: except Exception as e: logger.error(...); next subdirectory
MainCatch ==
    /\ pc = "main_except"
    /\ error_count' = error_count + 1
    /\ exc' = "none"
    /\ subdir_idx' = subdir_idx + 1
    /\ pc' = "main"
    /\ UNCHANGED <<work, idx, success_count, disk, localVars, driver, subdirs,
                   main_success_count, results, opened, handed>>
    /\ UNCHANGED runs

\* main's loop is over: logger.info(...)
MainEnd ==
    /\ pc = "main"
    /\ subdir_idx > Len(subdirs)
    /\ pc' = "main_done"
    /\ UNCHANGED <<work, idx, success_count, error_count, disk, exc, localVars,
                   driver, subdirs, subdir_idx, main_success_count, results,
                   opened, handed>>
    /\ UNCHANGED runs

\* a subdirectory before the run: its inputs, and what is at its result path
DirConfigs ==
    {[inputs |-> f, result |-> e] :
        f \in UNION {[1..n -> ItemKinds] : n \in 0..MaxItems}, e \in Entries}

PlainDir == [inputs |-> <<"ok">>, result |-> "none"]

\* main's lists: one subdirectory of any kind among ordinary ones
SubdirLists ==
    UNION {{[k \in 1..n |-> IF k = j THEN c ELSE PlainDir] :
               j \in 1..n, c \in DirConfigs} : n \in 1..MaxDirs}

InitDrivers ==
    /\ driver \in Drivers
    /\ subdirs \in SubdirLists
    /\ subdir_idx = 1
    /\ main_success_count = 0
    /\ results = [k \in 1..Len(subdirs) |-> [entry |-> subdirs[k].result, files |-> {}]]
    /\ opened = {}
    /\ handed = [k \in 1..Len(subdirs) |-> 0]
    /\ runs = <<>>
    /\ work = <<>>
    /\ idx = 1
    /\ success_count = 0
    /\ error_count = 0
    /\ disk = [p \in Paths |-> NoFile]
    /\ pc = "main"
    /\ exc = "none"
    /\ image = NoImage
    /\ output_file = NoPath
    /\ target_size = 0
    /\ min_size = 0
    /\ max_size = 0
    /\ current_quality = 0
    /\ best_quality = 0
    /\ best_size = 0
    /\ file_size = 0
    /\ resized_image = NoImage
    /\ attempts = <<>>

NextDrivers ==
    \/ MainCall
    \/ SkipExisting
    \/ NoInputs
    \/ MakeResultDir
    \/ OpenAll
    \/ MakeOverview
    \/ ProcessItem
    \/ ReturnFromDirectory
    \/ CoverBody
    \/ MainCatch
    \/ MainEnd

\* one run of a main over its subdirectories
SpecDrivers == InitDrivers /\ [][NextDrivers]_vars

\* number of times main is run over the same directories
MaxRuns == 2

\* if __name__ == '__main__': main() once more: the subdirectories are listed
\* again (the -result directories are left out of the list), the counters
\* start at 0, and the file system is as the run before left it
MainAgain ==
    /\ pc = "main_done"
    /\ \E d \in 1..Len(handed) : handed[d] < MaxRuns
    /\ subdir_idx' = 1
    /\ main_success_count' = 0
    /\ pc' = "main"
    /\ UNCHANGED <<work, idx, success_count, error_count, disk, exc, localVars,
                   driver, subdirs, results, opened, handed>>
    /\ UNCHANGED runs

NextRuns ==
    \/ NextDrivers
    \/ MainAgain

\* main run again and again over the same directories
SpecRuns == InitDrivers /\ [][NextRuns]_vars

\* ------------------------------------------------------------ the calendar images

\* for i in range(1, 13): the numbers of the calendar images
Months == 12

\* for ext in ['.png', '.jpg', '.jpeg', '.PNG', '.JPG', '.JPEG']
CalendarExts == <<".png", ".jpg", ".jpeg", ".PNG", ".JPG", ".JPEG">>

\* the loops of find_calendar_images from number i on: for each number the
\* file of the first extension that exists, then break
RECURSIVE FindFrom(_, _)
FindFrom(i, files) ==
    IF i > Months THEN <<>>
    ELSE LET hits == {k \in 1..Len(CalendarExts) :
                         [stem |-> i, suffix |-> CalendarExts[k]] \in files}
             first == CHOOSE k \in hits : \A j \in hits : k <= j
         IN  (IF hits = {} THEN <<>>
              ELSE <<[stem |-> i, suffix |-> CalendarExts[first]]>>)
             \o FindFrom(i + 1, files)

\* sorted(images, key=lambda x: int(x.stem)), a stable sort
RECURSIVE SortedByStem(_)
SortedByStem(images) ==
    IF images = <<>> THEN <<>>
    ELSE LET x == images[Len(images)]
             s == SortedByStem(SubSeq(images, 1, Len(images) - 1))
             k == Cardinality({j \in 1..Len(s) : s[j].stem <= x.stem})
         IN  SubSeq(s, 1, k) \o <<x>> \o SubSeq(s, k + 1, Len(s))

find_calendar_images(files) == SortedByStem(FindFrom(1, files))

\* file names of a working directory: the first, the second and the last
\* month, and a number find_calendar_images does not ask for
CalendarNumbers == {1, 2, Months, Months + 1}
CalendarNames ==
    {[stem |-> i, suffix |-> CalendarExts[k]] :
        i \in CalendarNumbers, k \in 1..Len(CalendarExts)}

\* a working directory of the calendar main before the run: its files, the
\* images find_calendar_images returns, what becomes of each, and what is at
\* the path of its result directory
CalendarDirs ==
    UNION {LET files == {f[k] : k \in 1..Len(f)}
               found == find_calendar_images(files)
           IN  {[inputs |-> kinds, result |-> e, found |-> found, files |-> files] :
                   kinds \in [1..Len(found) -> ItemKinds], e \in Entries} :
           f \in UNION {[1..m -> CalendarNames] : m \in 0..MaxItems}}

PlainCalendarDir ==
    [inputs |-> <<"ok">>, result |-> "none",
     found |-> <<[stem |-> 1, suffix |-> ".png"]>>,
     files |-> {[stem |-> 1, suffix |-> ".png"]}]

InitCalendar ==
    /\ driver = "calendar"
    /\ subdirs \in UNION {{[k \in 1..n |-> IF k = 1 THEN c ELSE PlainCalendarDir] :
                              c \in CalendarDirs} : n \in 1..MaxDirs}
    /\ subdir_idx = 1
    /\ main_success_count = 0
    /\ results = [k \in 1..Len(subdirs) |-> [entry |-> subdirs[k].result, files |-> {}]]
    /\ opened = {}
    /\ handed = [k \in 1..Len(subdirs) |-> 0]
    /\ runs = <<>>
    /\ work = <<>>
    /\ idx = 1
    /\ success_count = 0
    /\ error_count = 0
    /\ disk = [p \in Paths |-> NoFile]
    /\ pc = "main"
    /\ exc = "none"
    /\ image = NoImage
    /\ output_file = NoPath
    /\ target_size = 0
    /\ min_size = 0
    /\ max_size = 0
    /\ current_quality = 0
    /\ best_quality = 0
    /\ best_size = 0
    /\ file_size = 0
    /\ resized_image = NoImage
    /\ attempts = <<>>

NextCalendar ==
    \/ MainCall
    \/ SkipExisting
    \/ NoInputs
    \/ MakeResultDir
    \/ OpenAll
    \/ MakeOverview
    \/ ProcessItem
    \/ ReturnFromDirectory
    \/ MainCatch
    \/ MainEnd

\* one run of the calendar main over working directories with numbered files
SpecCalendar == InitCalendar /\ [][NextCalendar]_vars

\* ------------------------------------------------------------ the copies

\* the modules that each carry a copy of save_final_puzzle_image
Copies == {"calendar", "couple-avatar", "cover"}

\* mutant of CopyConstants: the copy in cover restarts where save_optimized_jpeg does
CopyConstants_CoverRestartsLower(copy) ==
    [min_bytes |-> FINAL_PUZZLE_MIN_SIZE, max_bytes |-> FINAL_PUZZLE_MAX_SIZE,
     start |-> Phase1StartQuality,
     restart |-> IF copy = "cover" THEN OptimizedRestartQuality ELSE Phase2StartQuality,
     floor |-> FloorQuality, step |-> QualityStep]

\* the numbers each copy is written with: its module's window, and the
\* literals of its two sweeps
CopyConstants(copy) ==
    CASE copy = "calendar" ->
           [min_bytes |-> 200 * 1024, max_bytes |-> 300 * 1024,
            start |-> 95, restart |-> 85, floor |-> 30, step |-> 5]
      [] copy = "couple-avatar" ->
           [min_bytes |-> 200 * 1024, max_bytes |-> 300 * 1024,
            start |-> 95, restart |-> 85, floor |-> 30, step |-> 5]
      [] copy = "cover" ->
           [min_bytes |-> 200 * 1024, max_bytes |-> 300 * 1024,
            start |-> 95, restart |-> 85, floor |-> 30, step |-> 5]

\* while current_quality >= 30: save; stat; a size above max_size lowers the
\* quality and goes on, any other size ends the sweep
RECURSIVE SweepOf(_, _, _, _, _)
SweepOf(k, img, q, phase, path) ==
    IF q < k.floor THEN <<>>
    ELSE LET f == JpegSave(img, q) IN
         IF f.size > k.max_bytes
         THEN <<Attempt(phase, path, f)>> \o SweepOf(k, img, q - k.step, phase, path)
         ELSE <<Attempt(phase, path, f)>>

\* the best candidate after the encodes i.. of a sweep without a hit
RECURSIVE BestOf(_, _, _, _)
BestOf(sweep, i, best, target) ==
    IF i > Len(sweep) THEN best
    ELSE BestOf(sweep, i + 1,
                IF IsCloser(sweep[i].file.size, best.size, target)
                THEN [quality |-> sweep[i].file.quality, size |-> sweep[i].file.size]
                ELSE best,
                target)

\* a complete call: its saves in order, how it ended, the file it left
Run(saves, e) == [attempts |-> saves, exc |-> e, final |-> saves[Len(saves)].file]

\* save_final_puzzle_image of one module, run to its end on a disk that does
\* not fail; rp is how the resized copy compresses
RunCopy(copy, item, rp) ==
    LET k == CopyConstants(copy)
        target == ClampTarget(item.target_size, k.min_bytes, k.max_bytes)
        img == ToRGB(item.image)
        path == NormalizeSuffix(item.output_file)
        p1 == SweepOf(k, img, k.start, 1, path)
        best == BestOf(p1, 1, [quality |-> k.start, size |-> 0], target)
        w == ScaledDim(img.width, target, best.size)
        h == ScaledDim(img.height, target, best.size)
        rimg == [img EXCEPT !.width = w, !.height = h, !.profile = rp]
        p2 == SweepOf(k, rimg, k.restart, 2, path)
    IN  IF InWindow(p1[Len(p1)].file.size, k.min_bytes, k.max_bytes)
        THEN Run(p1, "none")
        ELSE IF best.size > k.max_bytes
        THEN IF w < 1 \/ h < 1
             THEN Run(p1, "ValueError")
             ELSE IF p2[Len(p2)].file.size > k.max_bytes
             THEN Run(p1 \o p2 \o <<Attempt(2, path, JpegSave(rimg, k.floor))>>, "none")
             ELSE Run(p1 \o p2, "none")
        ELSE Run(p1 \o <<Attempt(3, path, JpegSave(img, best.quality))>>, "none")

\* the three copies called with the same arguments over the same codec
RunCopies ==
    /\ pc = "copies"
    /\ \E rp \in ResizedProfiles(work[1].codec) :
          runs' = [c \in Copies |-> RunCopy(c, work[1], rp)]
    /\ pc' = "copies_done"
    /\ UNCHANGED <<callerVars, disk, exc, localVars, driverVars>>

\* every kind of argument, and every codec profile of the full-size bitmap
CopyItems == InputItems \cup {[it EXCEPT !.codec = "few"] : it \in CodecItems}

InitCopies ==
    /\ work \in {<<it>> : it \in CopyItems}
    /\ idx = 1
    /\ success_count = 0
    /\ error_count = 0
    /\ disk = [p \in Paths |-> NoFile]
    /\ pc = "copies"
    /\ exc = "none"
    /\ image = NoImage
    /\ output_file = NoPath
    /\ target_size = 0
    /\ min_size = 0
    /\ max_size = 0
    /\ current_quality = 0
    /\ best_quality = 0
    /\ best_size = 0
    /\ file_size = 0
    /\ resized_image = NoImage
    /\ attempts = <<>>
    /\ NoDriver
    /\ runs = <<>>

NextCopies ==
    \/ RunCopies

\* the copies of save_final_puzzle_image side by side
SpecCopies == InitCopies /\ [][NextCopies]_vars

\* ------------------------------------------------------------ properties

\* the arguments of the running call, and the file at its output path
Arg == work[idx]
FinalFile == disk[output_file]
InCall == pc \in {"phase1", "branch", "phase2", "fallback", "returned"}
Measured == {i \in 1..Len(attempts) : attempts[i].phase # 3}

\* a codec whose size does not decrease as the quality rises
Monotone(p) == p.hi >= p.lo
Resized == resized_image # NoImage
Distance(size) == Abs(size - target_size)

\* C1: on a disk that does not fail, every call of save_final_puzzle_image ends
\* by returning, within the bounded number of encodes of its two sweeps, with
\* exactly one file, completely written, at its output path; no call ends in
\* an exception.
C1_AlwaysSucceeds ==
    /\ pc = "raised" => exc = "OSError"
    /\ Len(attempts) <= 2 * Cardinality(Qualities)
    /\ pc = "returned" =>
          /\ FinalFile.exists /\ FinalFile.complete
          /\ \A p \in Paths :
                p.stem = output_file.stem /\ disk[p].exists => p = output_file

\* C2: with a codec monotone in the quality, if some quality of 95, 90, ..., 30
\* puts the full-resolution bitmap, or the resized bitmap of phase 2, inside
\* the window, the file left by the call is inside the window.
C2_InWindowWheneverAchievable ==
    ( /\ pc = "returned"
      /\ Monotone(image.profile)
      /\ Resized => Monotone(resized_image.profile)
      /\ \/ \E q \in Qualities :
               InWindow(SizeAt(image.profile, q), min_size, max_size)
         \/ /\ Resized
            /\ \E q \in Qualities :
                  InWindow(SizeAt(resized_image.profile, q), min_size, max_size) )
    => InWindow(FinalFile.size, min_size, max_size)

\* C3 (as claimed): when the call returns with a file outside the window, no
\* encode of the call, in phase 1 or phase 2, measured a size strictly closer
\* to the target than the size of the final file.
C3_ClosestOfAllAttempts ==
    (pc = "returned" /\ ~InWindow(FinalFile.size, min_size, max_size))
    => \A i \in Measured :
          ~(Distance(attempts[i].file.size) < Distance(FinalFile.size))

\* C3 (amended): when the call returns without having resized, with a file
\* outside the window, no encode of the call measured a size strictly closer
\* to the target than the size of the final file.
C3_ClosestWhenNotResized ==
    (pc = "returned" /\ ~Resized /\ ~InWindow(FinalFile.size, min_size, max_size))
    => \A i \in Measured :
          ~(Distance(attempts[i].file.size) < Distance(FinalFile.size))

\* C3 witness: a call that returned without resizing after two measured
\* encodes, the second one undersized and kept as the best candidate.
C3_Witness ==
    /\ pc = "returned"
    /\ ~Resized
    /\ Len(attempts) = 3
    /\ FinalFile.size < min_size
    /\ FinalFile.quality = Phase1StartQuality - QualityStep

C5_TargetClamped ==
    InCall =>
        /\ min_size <= target_size /\ target_size <= max_size
        /\ (min_size <= Arg.target_size /\ Arg.target_size <= max_size)
              => target_size = Arg.target_size

\* C5 witness: a call given a target above the window has resized with the
\* clamped target.
C5_Witness ==
    /\ pc = "phase2"
    /\ Arg.target_size > FINAL_PUZZLE_MAX_SIZE
    /\ target_size = FINAL_PUZZLE_MAX_SIZE

\* C6: every encode of a bitmap that came with an alpha channel and a fully
\* transparent region writes that region as white.
C6_TransparentIsWhite ==
    \A i \in 1..Len(attempts) :
        (Arg.image.mode \in AlphaModes /\ Arg.image.alpha = 0)
            => attempts[i].file.colour = "white"

\* C7: every write of a call goes to the caller's path with its extension
\* replaced by .jpg.
C7_AlwaysJpgSuffix ==
    \A i \in 1..Len(attempts) :
        attempts[i].path = [Arg.output_file EXCEPT !.suffix = ".jpg"]

\* C8: every bitmap handed to the codec is no wider and no higher than the
\* input and is encoded at a quality of at most 95; a call whose first encode
\* (full resolution, quality 95) is below min_bytes raises nothing, does not
\* resize, and leaves the full-resolution bitmap encoded at quality 95.
C8_NeverUpscales ==
    /\ \A i \in 1..Len(attempts) :
          /\ attempts[i].file.width <= Arg.image.width
          /\ attempts[i].file.height <= Arg.image.height
          /\ attempts[i].file.quality <= Phase1StartQuality
    /\ (pc \in {"returned", "raised"}
        /\ SizeAt(Arg.image.profile, Phase1StartQuality) < FINAL_PUZZLE_MIN_SIZE)
       => /\ pc = "returned"
          /\ ~Resized
          /\ FinalFile.width = Arg.image.width
          /\ FinalFile.height = Arg.image.height
          /\ FinalFile.quality = Phase1StartQuality

\* C8 witness: a call that resized and returned a file of the smaller bitmap.
C8_Witness ==
    /\ pc = "returned"
    /\ Resized
    /\ FinalFile.width < Arg.image.width
    /\ FinalFile.height < Arg.image.height

C10_StorageErrorEndsCall ==
    [][ /\ (exc = "none" /\ exc' = "OSError")
           => /\ pc' = "raised"
              /\ attempts' = <<>>
              /\ \A p \in Paths : p # output_file => disk'[p] = disk[p]
              /\ UNCHANGED <<idx, success_count, error_count>>
        /\ (pc = "raised" /\ exc = "OSError")
           => /\ pc' = "loop"
              /\ idx' = idx + 1
              /\ error_count' = error_count + 1
              /\ success_count' = success_count
              /\ disk' = disk ]_vars

\* C10 witness: after the first image failed with a storage error, the second
\* image was encoded and returned.
C10_Witness ==
    /\ pc = "returned"
    /\ idx = 2
    /\ error_count = 1
    /\ success_count = 0

\* the encodes of the first sweep, in order, and whether that sweep is over
Phase1Attempts == SelectSeq(attempts, LAMBDA a : a.phase = 1)
Phase1Over == pc \in {"branch", "phase2", "fallback", "returned"}

\* the qualities of the first sweep: 95, 90, ... one step of 5 per encode
Phase1Descends ==
    \A i \in 1..Len(Phase1Attempts) :
        Phase1Attempts[i].file.quality = Phase1StartQuality - (i - 1) * QualityStep

\* C14 (as claimed): the qualities attempted in phase 1 are 95, 90, ..., each
\* once, and the sweep goes on until an encode is inside the window or the
\* floor quality 30 has been attempted.
C14_SweepRunsToHitOrFloor ==
    /\ Phase1Descends
    /\ Phase1Over =>
          LET last == Phase1Attempts[Len(Phase1Attempts)].file IN
             \/ (min_size <= last.size /\ last.size <= max_size)
             \/ last.quality = FloorQuality

\* C14 (amended): the qualities attempted in phase 1 are 95, 90, ..., each
\* once; every encode but the last was above max_bytes at a quality above the
\* floor, and the last one was inside the window, or below min_bytes (the
\* sweep is broken off), or at the floor quality 30.
C14_SweepRunsToHitBreakOrFloor ==
    /\ Phase1Descends
    /\ \A i \in 1..(Len(Phase1Attempts) - 1) :
          /\ Phase1Attempts[i].file.size > max_size
          /\ Phase1Attempts[i].file.quality > FloorQuality
    /\ Phase1Over =>
          LET last == Phase1Attempts[Len(Phase1Attempts)].file IN
             \/ (min_size <= last.size /\ last.size <= max_size)
             \/ last.size < min_size
             \/ last.quality = FloorQuality

\* C14 witness: the first sweep was broken off by an undersized encode at
\* quality 85, after two oversized ones.
C14_Witness ==
    /\ pc = "branch"
    /\ Len(attempts) = 3
    /\ attempts[3].file.quality = Phase1StartQuality - 2 * QualityStep
    /\ attempts[3].file.size < min_size

\* C15: in both sweeps the first encode measured inside [min_bytes, max_bytes],
\* edges included, is the last write of the call: the call has returned and
\* the file at the output path is that encode.
C15_FirstHitEndsCall ==
    \A i \in Measured :
        (min_size <= attempts[i].file.size /\ attempts[i].file.size <= max_size)
        => /\ i = Len(attempts)
           /\ pc = "returned"
           /\ FinalFile = attempts[i].file
           /\ attempts[i].path = output_file

\* C15 witness: the resized sweep hit the lower edge of the window at its
\* second encode, after a first sweep that ran to the floor.
C15_Witness ==
    /\ pc = "returned"
    /\ Len(attempts) = Cardinality(Qualities) + 2
    /\ attempts[Len(attempts)].phase = 2
    /\ FinalFile.size = min_size
    /\ FinalFile.quality = Phase2StartQuality - QualityStep

\* the out-of-window encodes of the first sweep: the candidates for the record
Candidates ==
    {i \in 1..Len(Phase1Attempts) :
        ~( /\ min_size <= Phase1Attempts[i].file.size
           /\ Phase1Attempts[i].file.size <= max_size )}

\* C16: after each out-of-window encode of phase 1 the record (best_quality,
\* best_size) is the encode so far whose size is nearest to the target, and of
\* several at that distance the earliest one: a later encode replaces the
\* record only when it is strictly nearer.
C16_BestIsNearestEarliest ==
    (InCall /\ Candidates # {}) =>
        \E i \in Candidates :
            /\ best_quality = Phase1Attempts[i].file.quality
            /\ best_size = Phase1Attempts[i].file.size
            /\ \A j \in Candidates :
                  /\ Distance(Phase1Attempts[j].file.size) >= Distance(best_size)
                  /\ j < i => Distance(Phase1Attempts[j].file.size) > Distance(best_size)

\* C16 witness: the last encode of phase 1 was exactly as far from the target
\* as the record, on the other side of the window, and the record stayed.
C16_Witness ==
    /\ pc = "branch"
    /\ Len(attempts) >= 2
    /\ attempts[Len(attempts)].file.size < min_size
    /\ best_size > max_size
    /\ Distance(attempts[Len(attempts)].file.size) = Distance(best_size)
    /\ best_quality = Phase1StartQuality

\* phase 2 is running or has run: the resized bitmap exists
EnteredPhase2 == pc \in {"phase2", "fallback"} \/ (pc = "returned" /\ Resized)

\* n = floor(d * sqrt(target_size / best_size))
IsFloorOfScaled(n, d) ==
    /\ n * n * best_size <= d * d * target_size
    /\ (n + 1) * (n + 1) * best_size > d * d * target_size

\* C17: phase 2 is entered exactly when phase 1 ended without an encode inside
\* the window and with a best candidate above max_bytes; the bitmap resized
\* is the RGB bitmap of the mode normalisation, it is resized once, and each
\* side of the copy is the side of the original times
\* sqrt(target_bytes / best_candidate_bytes), rounded down on its own.
C17_ResizeWhenBestAboveMax ==
    /\ EnteredPhase2 =>
          /\ Candidates = 1..Len(Phase1Attempts)
          /\ best_size > max_size
          /\ IsFloorOfScaled(resized_image.width, image.width)
          /\ IsFloorOfScaled(resized_image.height, image.height)
          /\ image = ToRGB(Arg.image)
          /\ resized_image.mode = "RGB"
          /\ resized_image.colour = image.colour
          /\ \A i \in 1..Len(attempts) :
                attempts[i].phase = 2 =>
                    /\ attempts[i].file.width = resized_image.width
                    /\ attempts[i].file.height = resized_image.height
                    /\ attempts[i].file.colour = image.colour
    /\ (pc = "returned" /\ ~Resized) =>
          \/ Candidates # 1..Len(Phase1Attempts)
          \/ best_size <= max_size

\* C17 witness: a bitmap that came as RGBA with a transparent region was
\* flattened and then resized with the target clamped to max_bytes.
C17_Witness ==
    /\ pc = "phase2"
    /\ Arg.image.mode = "RGBA"
    /\ Arg.image.alpha = 0
    /\ resized_image.colour = "white"
    /\ resized_image.width < image.width
    /\ target_size = FINAL_PUZZLE_MAX_SIZE
    /\ Arg.target_size > FINAL_PUZZLE_MAX_SIZE

\* the encodes of the resized bitmap, in order: the second sweep, then the
\* fallback; the second sweep has one quality for each of 85, 80, ..., 30
Phase2Attempts == SelectSeq(attempts, LAMBDA a : a.phase = 2)
Phase2Steps == Cardinality({q \in Qualities : q <= Phase2StartQuality})

\* the qualities of the second sweep: 85, 80, ... one step of 5 per encode
Phase2Descends ==
    \A i \in 1..Len(Phase2Attempts) :
        i <= Phase2Steps =>
            Phase2Attempts[i].file.quality = Phase2StartQuality - (i - 1) * QualityStep

C19_UndersizedBestIsReencoded ==
    (Phase1Over /\ Candidates = 1..Len(Phase1Attempts) /\ best_size < min_size)
    => /\ pc \in {"branch", "returned"}
       /\ ~Resized
       /\ Phase2Attempts = <<>>
       /\ pc = "returned" =>
             LET last == attempts[Len(attempts)] IN
                /\ Len(attempts) = Len(Phase1Attempts) + 1
                /\ last.phase = 3
                /\ last.path = output_file
                /\ last.file.quality = best_quality
                /\ last.file.width = image.width
                /\ last.file.height = image.height
                /\ FinalFile = last.file

\* C19 witness: the sweep went down three steps before an encode fell below
\* min_bytes nearer to the target than the oversized ones; the call returned
\* with the full-resolution bitmap encoded at that quality.
C19_Witness ==
    /\ pc = "returned"
    /\ ~Resized
    /\ best_size < min_size
    /\ best_quality = Phase1StartQuality - 3 * QualityStep
    /\ Len(attempts) = 5
    /\ FinalFile.quality = best_quality
    /\ FinalFile.width = Arg.image.width

\* whether the call is past its fallback encode
FallbackDone == pc = "returned" /\ Len(Phase2Attempts) = Phase2Steps + 1

\* C20: every encode of a call, in any phase, is at a quality that is a whole
\* number of steps of 5 from 30 up to 95; the fallback encode is at exactly 30.
C20_QualityInRange ==
    /\ \A i \in 1..Len(attempts) :
          LET q == attempts[i].file.quality IN
             /\ q \in Int
             /\ FloorQuality <= q
             /\ q <= Phase1StartQuality
             /\ (q - FloorQuality) % QualityStep = 0
    /\ FallbackDone => attempts[Len(attempts)].file.quality = FloorQuality
    /\ pc = "branch" =>
          /\ FloorQuality <= best_quality
          /\ best_quality <= Phase1StartQuality
          /\ (best_quality - FloorQuality) % QualityStep = 0

\* C20 witness: a call that made every encode it can make: fourteen in the
\* first sweep, twelve in the second, and the fallback.
C20_Witness ==
    /\ FallbackDone
    /\ Len(Phase1Attempts) = Cardinality(Qualities)
    /\ Len(attempts) = Cardinality(Qualities) + Phase2Steps + 1

\* C13: whenever save_optimized_jpeg returns, a file exists at output_file, it
\* is the JPEG the call wrote, and its size is at most max_size.
C13_NeverAboveMaxSize ==
    pc = "opt_returned" =>
        /\ FinalFile.exists
        /\ FinalFile.size <= max_size

\* C11: a processing function (of any of the five) called for a subdirectory
\* whose result directory exists returns True at once: main counts a success
\* and goes on to the next subdirectory, no file or directory is created,
\* overwritten or deleted, and no input image is opened.
C11_ExistingResultIsSkipped ==
    [][ (pc = "check" /\ results[subdir_idx].entry = "dir")
        => /\ pc' = "main"
           /\ main_success_count' = main_success_count + 1
           /\ subdir_idx' = subdir_idx + 1
           /\ results' = results
           /\ disk' = disk
           /\ opened' = opened
           /\ error_count' = error_count ]_vars

\* C11 witness: the first subdirectory had inputs and a result directory; it
\* was handed over once and skipped, and the second one is being processed.
C11_Witness ==
    /\ pc = "items"
    /\ subdir_idx = 2
    /\ subdirs[1].result = "dir"
    /\ Len(subdirs[1].inputs) = MaxItems
    /\ handed[1] = 1
    /\ main_success_count = 1
    /\ results[1] = [entry |-> "dir", files |-> {}]
    /\ \A o \in opened : o[1] # 1

\* the subdirectories whose processing got as far as its result directory
Processed == {d \in 1..Len(subdirs) : subdirs[d].result = "none"}

\* C12: in every driver that loops over images or pairs, each subdirectory is
\* handed to its processing function exactly once per run, and a failure on
\* one input never keeps the other inputs of the batch from being processed:
\* after the run, every input that can be opened, composed and saved has its
\* output in the result directory.
C12_FailuresArePerItem ==
    /\ \A d \in 1..Len(handed) : handed[d] <= 1
    /\ pc = "main_done" =>
          /\ \A d \in 1..Len(handed) : handed[d] = 1
          /\ driver # "cover" =>
                \A d \in Processed : \A i \in 1..Len(subdirs[d].inputs) :
                    subdirs[d].inputs[i] = "ok" => i \in results[d].files

\* C21: a call makes at most 14 encodes in phase 1 and at most 14 encodes of
\* the resized bitmap (second sweep and fallback together), and at most 28
\* writes to its output path in all.
C21_BoundedEncodes ==
    /\ Len(Phase1Attempts) <= 14
    /\ Len(Phase2Attempts) <= 14
    /\ Len(attempts) <= 28
    /\ \A i \in 1..Len(attempts) : attempts[i].path = output_file

\* C21 witness: the first sweep made its fourteen encodes and the second its
\* twelve; the fallback encode is next.
C21_Witness ==
    /\ pc = "fallback"
    /\ Len(Phase1Attempts) = 14
    /\ Len(Phase2Attempts) = 12
    /\ current_quality < FloorQuality

\* the first sweep is over and none of its encodes ended the call
Phase1Missed ==
    \/ pc \in {"branch", "phase2", "fallback"}
    \/ pc = "returned" /\ Len(attempts) > Len(Phase1Attempts)

\* C22: when phase 1 ends without a hit, every encode it made was above
\* max_bytes or below min_bytes, at most one was below min_bytes, and that one
\* is the last encode of phase 1.
C22_OnlyLastIsUndersized ==
    Phase1Missed =>
        /\ \A i \in 1..Len(Phase1Attempts) :
              \/ Phase1Attempts[i].file.size > max_size
              \/ Phase1Attempts[i].file.size < min_size
        /\ \A i \in 1..Len(Phase1Attempts) :
              Phase1Attempts[i].file.size < min_size => i = Len(Phase1Attempts)

\* C22 witness: phase 1 ended on an undersized encode at the floor quality,
\* after thirteen oversized ones.
C22_Witness ==
    /\ pc = "branch"
    /\ Len(Phase1Attempts) = 14
    /\ Phase1Attempts[14].file.size < min_size
    /\ Phase1Attempts[13].file.size > max_size

C24_OnlyOutputPathWritten ==
    [][ /\ \A p \in Paths :
              disk'[p] # disk[p] => (InCall /\ pc # "returned" /\ p = output_file)
        /\ (pc = "loop" /\ pc' = "phase1")
              => output_file' =
                    IF work[idx].output_file.suffix \in {".png", ".PNG"}
                    THEN [work[idx].output_file EXCEPT !.suffix = ".jpg"]
                    ELSE work[idx].output_file
        /\ (InCall /\ pc' \in {"phase1", "branch", "phase2", "fallback", "returned"})
              => output_file' = output_file
        /\ \A i \in 1..Len(attempts') : attempts'[i].path = output_file' ]_vars

\* C24 witness: the second call of a batch resized and is sweeping again while
\* the file the first call left is still as it was returned.
C24_Witness ==
    /\ pc = "phase2"
    /\ idx = 2
    /\ success_count = 1
    /\ Len(attempts) > 14
    /\ disk[[stem |-> 1, suffix |-> ".jpg"]].complete
    /\ disk[[stem |-> 2, suffix |-> ".jpg"]].exists

\* C25: whenever the call is about to resize (best candidate above
\* max_bytes), both sides computed for the copy are at least 1 pixel, for
\* every bitmap of at least 1x1, and Image.resize never raises.
C25_ResizedSidesAtLeastOne ==
    /\ (pc = "branch" /\ best_size > max_size) =>
          /\ image.width >= 1 /\ image.height >= 1
          /\ ScaledDim(image.width, target_size, best_size) >= 1
          /\ ScaledDim(image.height, target_size, best_size) >= 1
    /\ exc # "ValueError"

\* C26: when control reaches the branching after phase 1, best_size is not 0
\* and lies outside [min_bytes, max_bytes]: the branch taken is the resize or
\* the one for an undersized best candidate, never the final else.
C26_BestOutsideWindowAtBranch ==
    pc = "branch" =>
        /\ best_size # 0
        /\ (best_size < min_size \/ best_size > max_size)
        /\ best_size \in {attempts[i].file.size : i \in 1..Len(attempts)}

\* C26 witness: phase 1 ended at the floor with every encode oversized; the
\* record is the first of them.
C26_Witness ==
    /\ pc = "branch"
    /\ Len(attempts) = 14
    /\ best_quality = Phase1StartQuality
    /\ best_size > max_size
    /\ attempts[14].file.size = best_size

\* C27 (as claimed): phase 2 is entered only after all fourteen encodes of
\* phase 1, down to quality 30, were above max_bytes.
C27_ResizeOnlyAfterAllOversized ==
    EnteredPhase2 =>
        /\ Len(Phase1Attempts) = Cardinality(Qualities)
        /\ \A i \in 1..Len(Phase1Attempts) : Phase1Attempts[i].file.size > max_size

\* C27 (amended): phase 2 is entered only when phase 1 ended without a hit and
\* its best candidate is above max_bytes: either all fourteen encodes were
\* above max_bytes, or the sweep was broken off by an encode below min_bytes
\* that is not strictly nearer to the target than an earlier oversized encode.
C27_ResizeOnlyWhenBestOversized ==
    EnteredPhase2 =>
        LET n == Len(Phase1Attempts)
            last == Phase1Attempts[n].file
        IN  /\ best_size > max_size
            /\ \A i \in 1..(n - 1) : Phase1Attempts[i].file.size > max_size
            /\ \/ n = Cardinality(Qualities) /\ last.size > max_size
               \/ /\ last.size < min_size
                  /\ n > 1
                  /\ \E i \in 1..(n - 1) :
                        /\ Phase1Attempts[i].file.size = best_size
                        /\ Distance(best_size) <= Distance(last.size)

\* C27 witness: the resized sweep runs after a phase 1 of three encodes, the
\* last of them far below min_bytes, the record an oversized one.
C27_Witness ==
    /\ pc = "phase2"
    /\ Len(Phase1Attempts) = 3
    /\ Phase1Attempts[3].file.size < min_size - 1
    /\ best_size = max_size + 1

\* C28: when a later run skips a directory whose result directory an earlier
\* run created, that result directory holds at least one output.
C28_SkipOnlyCompletedWork ==
    (/\ pc = "check"
     /\ handed[subdir_idx] > 1
     /\ subdirs[subdir_idx].result = "none"
     /\ SkipTest(driver, Result.entry)) => Result.files # {}

\* C30: in one run of process_mobile_imgs_directory, a save starts on an
\* output path that holds no finished output of another source of the run.
C30_DistinctOutputPaths ==
    (pc = "phase1" /\ attempts = <<>>) =>
        ~(disk[output_file].exists /\ disk[output_file].complete)

\* C29: in the calendar process_directory, the single-image output written
\* for the source file N.<ext> is N.jpg, whichever of the numbers are present.
C29_OutputNumberIsSourceNumber ==
    \A d \in 1..Len(results) :
        \A i \in results[d].files \ {Overview} : subdirs[d].found[i].stem = i

====
